---- MODULE Spec2Model ----
(***************************************************************************)
(* A model of logcli: the JSON-lines reader and validate_obj (reader.py),  *)
(* the filter generators (filters.py), StatsAggregator (metrics.py), the   *)
(* analyze and watch handlers and the alert evaluation (_eval_alerts).     *)
(*                                                                         *)
(* Python values are modelled as records of one shape so that any two can  *)
(* be compared; None is the empty sequence and a present value v is <<v>>. *)
(***************************************************************************)
EXTENDS Integers, Sequences, FiniteSets, TLC

VARIABLES
    mode,             \* "analyze" | "watch": the handler that runs
    source,           \* "stdin", or the log file: "file" (a .jsonl file),
                      \* "not_jsonl" (another suffix), "missing" (no such file)
    order,            \* iteration order of the set REQUIRED_FIELDS in this process
    args,             \* analyze: the processed args (service, severity, since, until)
    cfg,              \* watch: the WatchConfig (window_minutes, alerts)
    criteria,         \* the arguments bound into the chain of filter generators
    pc,               \* where the pull pipeline stands
    read,             \* the lines the reader has taken from its source so far
    row,              \* the record in flight between reader, filters and aggregator
    parse_errors,     \* LogReader.parse_errors
    invalid_records,  \* LogReader.invalid_records
    agg,              \* the StatsAggregator's attributes
    stats,            \* the dictionary to_dict returned, once it has
    out,              \* the result lines written (snapshot, OK, ALERT lines)
    exit_code,        \* the process's exit status, once it has ended
    err,              \* the exception that ended the run, and where it was raised
    vin,              \* validate_obj alone: its argument
    vout,             \* validate_obj alone: its outcome
    ain,              \* _eval_alerts alone: its arguments
    aout,             \* _eval_alerts alone: its result
    fin,              \* the filter chain alone: the rows, the arguments, the order
    fout              \* the filter chain alone: what came of each order

vars == <<mode, source, order, args, cfg, criteria, pc, read, row, parse_errors,
          invalid_records, agg, stats, out, exit_code, err, vin, vout, ain, aout, fin, fout>>

pipeVars == <<mode, source, order, args, cfg, criteria, pc, read, row,
              parse_errors, invalid_records, agg, stats, out, exit_code, err>>

(***************************************************************************)
(* Bounds of the model.                                                    *)
(***************************************************************************)
MaxLines == 3      \* lines of one input
MaxTime == 4       \* timestamps are minutes 0..MaxTime of one hour
MaxRules == 2      \* rules of a config handed to _eval_alerts on its own

(***************************************************************************)
(* Python values.                                                          *)
(***************************************************************************)
None == <<>>
Some(v) == <<v>>

PyStr(s) == [ty |-> "str", s |-> s, n |-> 0, aware |-> FALSE]
PyInt(n) == [ty |-> "int", s |-> "", n |-> n, aware |-> FALSE]
PyBool(b) == [ty |-> "bool", s |-> "", n |-> IF b THEN 1 ELSE 0, aware |-> FALSE]
Null == [ty |-> "null", s |-> "", n |-> 0, aware |-> FALSE]
DateTime(t, aware) == [ty |-> "datetime", s |-> "", n |-> t, aware |-> aware]

\* A decoded JSON value: a dict d, or a list / string with the field names
\* `in` finds in it, or a number, boolean or null.
Dict(d) == [kind |-> "dict", d |-> d, elems |-> {}]
List(elems) == [kind |-> "list", d |-> <<>>, elems |-> elems]
JsonStr(elems) == [kind |-> "str", d |-> <<>>, elems |-> elems]
JsonNum == [kind |-> "int", d |-> <<>>, elems |-> {}]
JsonNull == [kind |-> "null", d |-> <<>>, elems |-> {}]

\* dict.get(key): None when the key is absent.
DictGet(d, k) == IF k \in DOMAIN d THEN Some(d[k]) ELSE None

\* d with d[k] = v, k added when absent.
DictSet(d, k, v) == [x \in DOMAIN d \cup {k} |-> IF x = k THEN v ELSE d[x]]

(***************************************************************************)
(* ISO-8601 text and datetime.fromisoformat / datetime.isoformat.          *)
(***************************************************************************)
Times == 0..MaxTime

IsoText(t, aware) ==
    "2026-01-01T00:0" \o ToString(t) \o ":00" \o (IF aware THEN "+00:00" ELSE "")

IsoTexts == {IsoText(t, a) : t \in Times, a \in BOOLEAN}

\* datetime.fromisoformat(v): a datetime, ValueError for a string that is no
\* ISO-8601 date-time, TypeError for an argument that is not a string.
FromIsoFormat(v) ==
    IF v.ty # "str" THEN [exc |-> "TypeError", dt |-> Null]
    ELSE IF v.s \notin IsoTexts THEN [exc |-> "ValueError", dt |-> Null]
    ELSE LET p == CHOOSE p \in Times \X BOOLEAN : IsoText(p[1], p[2]) = v.s
         IN  [exc |-> "none", dt |-> DateTime(p[1], p[2])]

(***************************************************************************)
(* reader.py: validate_obj.                                                *)
(***************************************************************************)
REQUIRED_FIELDS == {"severity", "timestamp", "service", "message"}

\* The orders in which `for field in REQUIRED_FIELDS` may visit the set.
Orders ==
    {o \in [1..4 -> REQUIRED_FIELDS] : \A i, j \in 1..4 : i # j => o[i] # o[j]}

\* `field in obj`: membership for a dict (keys), a list (elements) and a string
\* (substrings); TypeError for a number, a boolean and null.
Contains(obj, field) ==
    CASE obj.kind = "dict" -> IF field \in DOMAIN obj.d THEN "yes" ELSE "no"
      [] obj.kind \in {"list", "str"} -> IF field \in obj.elems THEN "yes" ELSE "no"
      [] OTHER -> "TypeError"

KeyError(field) == [type |-> "KeyError", field |-> field]
ValueError == [type |-> "ValueError", field |-> "timestamp"]

\* The loop of validate_obj from the i-th field on: the exception that ends it
\* early (if any), the errors appended and the object as the loop leaves it.
RECURSIVE ValidateLoop(_, _, _, _)
ValidateLoop(obj, ord, i, errors) ==
    IF i > Len(ord) THEN [exc |-> "none", errors |-> errors, obj |-> obj]
    ELSE LET field == ord[i]
             has == Contains(obj, field)
         IN  IF has = "TypeError"
             THEN [exc |-> "TypeError", errors |-> errors, obj |-> obj]
             ELSE IF has = "no"
             THEN ValidateLoop(obj, ord, i + 1, Append(errors, KeyError(field)))
             ELSE IF field # "timestamp"
             THEN ValidateLoop(obj, ord, i + 1, errors)
             ELSE IF obj.kind # "dict"
             THEN \* obj.get on a list or a string
                  [exc |-> "AttributeError", errors |-> errors, obj |-> obj]
             ELSE LET p == FromIsoFormat(obj.d["timestamp"])
                  IN  IF p.exc = "TypeError"
                      THEN [exc |-> "TypeError", errors |-> errors, obj |-> obj]
                      ELSE IF p.exc = "ValueError"
                      THEN ValidateLoop(obj, ord, i + 1, Append(errors, ValueError))
                      ELSE ValidateLoop(
                               Dict(DictSet(obj.d, "timestamp", p.dt)),
                               ord, i + 1, errors)

\* validate_obj(obj): exc is "none" (obj returned), "ExceptionGroup" (with the
\* errors), or the exception that escaped the loop; obj is the argument as the
\* call leaves it.
validate_obj(obj, ord) ==
    LET r == ValidateLoop(obj, ord, 1, <<>>)
    IN  IF r.exc # "none" THEN [exc |-> r.exc, errors |-> <<>>, obj |-> r.obj]
        ELSE IF r.errors # <<>>
        THEN [exc |-> "ExceptionGroup", errors |-> r.errors, obj |-> r.obj]
        ELSE [exc |-> "none", errors |-> <<>>, obj |-> r.obj]

(***************************************************************************)
(* str.lower and str(value), over the strings the model uses.              *)
(***************************************************************************)
LowerTable ==
    "ERROR" :> "error" @@ "Error" :> "error" @@ "INFO" :> "info"
    @@ "A" :> "a" @@ "B" :> "b"

Lower(s) == IF s \in DOMAIN LowerTable THEN LowerTable[s] ELSE s

\* str(value) of a JSON value held in a field.
StrOf(v) ==
    CASE v.ty = "str" -> v.s
      [] v.ty = "int" -> ToString(v.n)
      [] v.ty = "bool" -> IF v.n = 1 THEN "True" ELSE "False"
      [] v.ty = "null" -> "None"

\* row.get(field) as Python sees it: None for an absent key and for JSON null.
RowGet(r, field) ==
    IF field \in DOMAIN r /\ r[field].ty # "null" THEN Some(r[field]) ELSE None

(***************************************************************************)
(* Rationals <<num, den>> with den > 0: the results of Python's division.  *)
(***************************************************************************)
Rat(a, b) == <<a, b>>
RatEq(x, y) == x[1] * y[2] = y[1] * x[2]
RatGe(x, y) == x[1] * y[2] >= y[1] * x[2]
RatGt(x, y) == x[1] * y[2] > y[1] * x[2]

(***************************************************************************)
(* filters.py: each generator, as what it does with one row it pulls.      *)
(* The result is "yield", "skip" or the exception the comparison raises.   *)
(***************************************************************************)
\* a >= b on datetimes: TypeError between an offset-naive and an offset-aware one.
\* DtGe with > for >=.
DtGe_Strict(a, b) ==
    IF a.aware # b.aware THEN "TypeError" ELSE IF a.n > b.n THEN "yes" ELSE "no"

DtGe(a, b) ==
    IF a.aware # b.aware THEN "TypeError" ELSE IF a.n >= b.n THEN "yes" ELSE "no"

DtLe(a, b) ==
    IF a.aware # b.aware THEN "TypeError" ELSE IF a.n <= b.n THEN "yes" ELSE "no"

\* min(a, b) and max(a, b) of two datetimes of the same awareness.
DtMin(a, b) == IF b.n < a.n THEN b ELSE a
DtMax(a, b) == IF b.n > a.n THEN b ELSE a

_filter_by_field(r, values, field) ==
    IF values = {} THEN "yield"
    ELSE LET value == RowGet(r, field)
         IN  IF value = None THEN "skip"
             ELSE IF Lower(StrOf(value[1])) \in values THEN "yield" ELSE "skip"

filter_by_service(r, services) == _filter_by_field(r, services, "service")

filter_by_severity(r, severities) == _filter_by_field(r, severities, "severity")

filter_since(r, timestamp) ==
    IF timestamp = None THEN "yield"
    ELSE LET row_ts == RowGet(r, "timestamp")
         IN  IF row_ts = None THEN "skip"
             ELSE LET c == DtGe(row_ts[1], timestamp[1])
                  IN  IF c = "TypeError" THEN c
                      ELSE IF c = "yes" THEN "yield" ELSE "skip"

filter_until(r, timestamp) ==
    IF timestamp = None THEN "yield"
    ELSE LET row_ts == RowGet(r, "timestamp")
         IN  IF row_ts = None THEN "skip"
             ELSE LET c == DtLe(row_ts[1], timestamp[1])
                  IN  IF c = "TypeError" THEN c
                      ELSE IF c = "yes" THEN "yield" ELSE "skip"

\* One stage of the chain on one row.
ApplyStage(stage, r, crit) ==
    CASE stage = "service" -> filter_by_service(r, crit.service)
      [] stage = "severity" -> filter_by_severity(r, crit.severity)
      [] stage = "since" -> filter_since(r, crit.since)
      [] stage = "until" -> filter_until(r, crit.until)

\* A row pulled through the stages in the order they wrap the reader: the first
\* stage that skips it or raises decides.
RECURSIVE RunStages(_, _, _)
RunStages(stages, r, crit) ==
    IF stages = <<>> THEN "yield"
    ELSE LET res == ApplyStage(Head(stages), r, crit)
         IN  IF res = "yield" THEN RunStages(Tail(stages), r, crit) ELSE res

\* The chains analyze and watch build.
AnalyzeStages == <<"service", "severity", "since", "until">>
WatchStages == <<"since">>
StagesOf(m) == IF m = "analyze" THEN AnalyzeStages ELSE WatchStages

(***************************************************************************)
(* metrics.py: StatsAggregator.                                            *)
(***************************************************************************)
EmptyCounts == [k \in {} |-> 0]

\* StatsAggregator.__init__
NewAggregator ==
    [total |-> 0, by_severity |-> EmptyCounts, by_service |-> EmptyCounts,
     latency_count |-> 0, latency_min |-> None, latency_max |-> None,
     latency_sum |-> 0, start_time |-> None, end_time |-> None]

\* counts[k] = counts.get(k, 0) + 1
Bump(counts, k) ==
    [x \in DOMAIN counts \cup {k} |->
        (IF x \in DOMAIN counts THEN counts[x] ELSE 0) + (IF x = k THEN 1 ELSE 0)]

\* isinstance(latency, (int, float)): bool is a subclass of int.
IsNumber(v) == v # None /\ v[1].ty \in {"int", "bool"}

IntMin(a, b) == IF b < a THEN b ELSE a
IntMax(a, b) == IF b > a THEN b ELSE a

\* ConsumeCounts with total += 1 moved under `if isinstance(severity, str)`.
ConsumeCounts_TotalUnderIf(a, r) ==
    LET severity == RowGet(r, "severity")
        service == RowGet(r, "service")
        a2 == IF severity # None /\ severity[1].ty = "str"
              THEN [a EXCEPT !.total = @ + 1,
                             !.by_severity = Bump(@, Lower(severity[1].s))]
              ELSE a
    IN  IF service # None /\ service[1].ty = "str"
        THEN [a2 EXCEPT !.by_service = Bump(@, Lower(service[1].s))]
        ELSE a2

\* ConsumeCounts with the severity counted under its own spelling (no lower()).
ConsumeCounts_NoLower(a, r) ==
    LET severity == RowGet(r, "severity")
        service == RowGet(r, "service")
        a1 == [a EXCEPT !.total = @ + 1]
        a2 == IF severity # None /\ severity[1].ty = "str"
              THEN [a1 EXCEPT !.by_severity = Bump(@, severity[1].s)]
              ELSE a1
    IN  IF service # None /\ service[1].ty = "str"
        THEN [a2 EXCEPT !.by_service = Bump(@, Lower(service[1].s))]
        ELSE a2

\* The lines of consume's loop body up to the time range (lines 47-57).
ConsumeCounts(a, r) ==
    LET severity == RowGet(r, "severity")
        service == RowGet(r, "service")
        a1 == [a EXCEPT !.total = @ + 1]
        a2 == IF severity # None /\ severity[1].ty = "str"
              THEN [a1 EXCEPT !.by_severity = Bump(@, Lower(severity[1].s))]
              ELSE a1
    IN  IF service # None /\ service[1].ty = "str"
        THEN [a2 EXCEPT !.by_service = Bump(@, Lower(service[1].s))]
        ELSE a2

\* The latency lines of consume's loop body (lines 63-68).
ConsumeLatency(a, r) ==
    LET latency == DictGet(r, "latency_ms")
    IN  IF IsNumber(latency)
        THEN LET l == latency[1].n
             IN  [a EXCEPT !.latency_count = @ + 1,
                           !.latency_sum = @ + l,
                           !.latency_min = IF @ = None THEN Some(l)
                                           ELSE Some(IntMin(l, @[1])),
                           !.latency_max = IF @ = None THEN Some(l)
                                           ELSE Some(IntMax(l, @[1]))]
        ELSE a

\* One turn of consume's loop on the row it pulled: the aggregator afterwards
\* and the exception raised, if any (min / max of a naive and an aware time).
ConsumeRow(a, r) ==
    LET a1 == ConsumeCounts(a, r)
        timestamp == r["timestamp"]
    IN  IF a1.start_time # None /\ a1.start_time[1].aware # timestamp.aware
        THEN [exc |-> "TypeError", agg |-> a1]
        ELSE LET a2 == [a1 EXCEPT
                          !.start_time = IF @ = None THEN Some(timestamp)
                                         ELSE Some(DtMin(timestamp, @[1])),
                          !.end_time = IF @ = None THEN Some(timestamp)
                                       ELSE Some(DtMax(timestamp, @[1]))]
             IN  [exc |-> "none", agg |-> ConsumeLatency(a2, r)]

\* StatsAggregator.to_dict
to_dict(a) ==
    LET avg == IF a.latency_count # 0
               THEN Some(Rat(a.latency_sum, a.latency_count)) ELSE None
        error_rate == IF "error" \in DOMAIN a.by_severity
                      THEN Some(Rat(a.by_severity["error"], a.total)) ELSE None
    IN  [total |-> a.total,
         time_range |-> [start |-> a.start_time, end |-> a.end_time],
         error_rate |-> error_rate,
         service_counts |-> a.by_service,
         severity_counts |-> a.by_severity,
         latency_ms |-> [count |-> a.latency_count, min |-> a.latency_min,
                         max |-> a.latency_max, avg |-> avg]]

(***************************************************************************)
(* watch.py: _eval_alerts.                                                 *)
(***************************************************************************)
ALERT_TYPES == {"error_rate", "p95_latency"}

AlertRule(name, type, threshold) ==
    [name |-> name, type |-> type, threshold |-> threshold]

Message(rule, value) ==
    [name |-> rule.name, type |-> rule.type, value |-> value,
     threshold |-> rule.threshold]

\* stats["latency_ms"].get("p95")
GetP95(st) ==
    IF "p95" \in DOMAIN st.latency_ms THEN st.latency_ms["p95"] ELSE None

\* EvalRule with >= in place of > for p95_latency.
EvalRule_P95GreaterEqual(st, rule) ==
    CASE rule.type = "error_rate" ->
            LET er == st.error_rate
            IN  IF er = None THEN <<>>
                ELSE IF RatGe(er[1], rule.threshold)
                THEN <<Message(rule, er[1])>> ELSE <<>>
      [] rule.type = "p95_latency" ->
            LET er == GetP95(st)
            IN  IF er = None THEN <<>>
                ELSE IF RatGe(er[1], rule.threshold)
                THEN <<Message(rule, er[1])>> ELSE <<>>
      [] OTHER -> <<>>

\* The message one rule appends, if it does.
EvalRule(st, rule) ==
    CASE rule.type = "error_rate" ->
            LET er == st.error_rate
            IN  IF er = None THEN <<>>
                ELSE IF RatGe(er[1], rule.threshold)
                THEN <<Message(rule, er[1])>> ELSE <<>>
      [] rule.type = "p95_latency" ->
            LET er == GetP95(st)
            IN  IF er = None THEN <<>>
                ELSE IF RatGt(er[1], rule.threshold)
                THEN <<Message(rule, er[1])>> ELSE <<>>
      [] OTHER -> <<>>

\* EvalRules with each message put before the earlier ones.
RECURSIVE EvalRules_Reversed(_, _)
EvalRules_Reversed(st, rules) ==
    IF rules = <<>> THEN <<>>
    ELSE EvalRules_Reversed(st, Tail(rules)) \o EvalRule(st, Head(rules))

RECURSIVE EvalRules(_, _)
EvalRules(st, rules) ==
    IF rules = <<>> THEN <<>>
    ELSE EvalRule(st, Head(rules)) \o EvalRules(st, Tail(rules))

_eval_alerts(st, config) == EvalRules(st, config.alerts)

(***************************************************************************)
(* The values the model draws raw objects from.                            *)
(***************************************************************************)
Opt(S) == {None} \cup {Some(v) : v \in S}

\* The dict with the given fields, each absent (None) or present.
MkDict(sev, ts, svc, msg, lat) ==
    LET f == [severity |-> sev, timestamp |-> ts, service |-> svc,
              message |-> msg, latency_ms |-> lat]
    IN  Dict([k \in {x \in DOMAIN f : f[x] # None} |-> f[k][1]])

BadTimestampText == "not-a-date"

\* timestamp values: ISO-8601 text with and without an offset, text that is no
\* date, JSON values that are not strings, and an already parsed instant.
TimestampVals ==
    {PyStr(IsoText(1, TRUE)), PyStr(IsoText(1, FALSE)), PyStr(BadTimestampText),
     PyInt(123), Null, DateTime(1, TRUE), DateTime(1, FALSE)}

ValidateInputs ==
    {MkDict(sev, ts, svc, msg, lat) :
        sev \in Opt({PyStr("ERROR"), PyInt(5)}), ts \in Opt(TimestampVals),
        svc \in Opt({PyStr("a")}), msg \in Opt({PyStr("m")}),
        lat \in Opt({PyInt(5)})}
    \cup {JsonNum, JsonNull, List({}), List({"timestamp"}),
          JsonStr({}), JsonStr({"timestamp", "message"})}

(***************************************************************************)
(* Input lines. A line is text that json.loads decodes to a value (k =      *)
(* "json"), text that is no JSON, or the text Exit.                        *)
(***************************************************************************)
Line(v) == [k |-> "json", v |-> v]
Malformed == [k |-> "malformed", v |-> JsonNull]
ExitLine == [k |-> "Exit", v |-> JsonNull]

\* json.loads(text): the value, or JSONDecodeError. Exit is no JSON text.
JsonLoads(line) ==
    IF line.k = "json" THEN [exc |-> "none", v |-> line.v]
    ELSE [exc |-> "JSONDecodeError", v |-> JsonNull]

\* A record line with all four required fields and ISO-8601 time t.
Rec(sev, t, aware, svc, lat) ==
    Line(MkDict(Some(sev), Some(PyStr(IsoText(t, aware))), Some(svc),
                Some(PyStr("m")), lat))

ErrorLine == Rec(PyStr("ERROR"), 2, TRUE, PyStr("a"), Some(PyInt(101)))
ThreeFailuresLine ==
    Line(MkDict(None, Some(PyStr(BadTimestampText)), Some(PyStr("a")), None, None))
BadTimestampLine ==
    Line(MkDict(Some(PyStr("INFO")), Some(PyStr(BadTimestampText)),
                Some(PyStr("a")), Some(PyStr("m")), None))
NumberTimestampLine ==
    Line(MkDict(Some(PyStr("INFO")), Some(PyInt(123)), Some(PyStr("a")),
                Some(PyStr("m")), None))

PipelineLines ==
    {ErrorLine,
     Rec(PyStr("error"), 3, TRUE, PyStr("B"), Some(PyInt(5))),
     Rec(PyStr("info"), 1, TRUE, PyStr("a"), None),
     Rec(PyStr("Error"), 0, TRUE, PyStr("b"), Some(PyStr("x"))),
     Rec(Null, MaxTime, TRUE, PyInt(5), Some(PyBool(TRUE))),
     Rec(PyStr("error"), 2, FALSE, PyStr("a"), Some(PyInt(7))),
     ThreeFailuresLine, BadTimestampLine, NumberTimestampLine,
     Line(JsonNum), Malformed, ExitLine}

(***************************************************************************)
(* The arguments of a run.                                                 *)
(***************************************************************************)
RawArgs(service, severity, since, until, output) ==
    [service |-> service, severity |-> severity, since |-> since,
     until |-> until, output |-> output]

AnalyzeArgs ==
    {RawArgs({}, {}, None, None, Some("json")),
     RawArgs({"A"}, {"Error", "info"}, None, None, None),
     RawArgs({}, {}, Some(IsoText(1, TRUE)), Some(IsoText(3, TRUE)), Some("json")),
     RawArgs({}, {}, Some(IsoText(1, FALSE)), None, None),
     RawArgs({}, {}, None, Some(BadTimestampText), None)}

\* _process_args without lines 39-42: the names are kept as they were typed.
_process_args_NoLower(a) ==
    LET since == IF a.since = None THEN [exc |-> "none", dt |-> Null]
                 ELSE FromIsoFormat(PyStr(a.since[1]))
        until == IF a.until = None THEN [exc |-> "none", dt |-> Null]
                 ELSE FromIsoFormat(PyStr(a.until[1]))
    IN  IF since.exc = "ValueError" \/ until.exc = "ValueError"
        THEN [exit |-> Some(1), args |-> a]
        ELSE [exit |-> None,
              args |-> [service |-> a.service,
                        severity |-> a.severity,
                        since |-> IF a.since = None THEN None ELSE Some(since.dt),
                        until |-> IF a.until = None THEN None ELSE Some(until.dt),
                        output |-> IF a.output = None THEN Some("table")
                                   ELSE a.output]]

\* analyze.py: _process_args. exit is the status of exit(1), or None.
_process_args(a) ==
    LET since == IF a.since = None THEN [exc |-> "none", dt |-> Null]
                 ELSE FromIsoFormat(PyStr(a.since[1]))
        until == IF a.until = None THEN [exc |-> "none", dt |-> Null]
                 ELSE FromIsoFormat(PyStr(a.until[1]))
    IN  IF since.exc = "ValueError" \/ until.exc = "ValueError"
        THEN [exit |-> Some(1), args |-> a]
        ELSE [exit |-> None,
              args |-> [service |-> {Lower(x) : x \in a.service},
                        severity |-> {Lower(x) : x \in a.severity},
                        since |-> IF a.since = None THEN None ELSE Some(since.dt),
                        until |-> IF a.until = None THEN None ELSE Some(until.dt),
                        output |-> IF a.output = None THEN Some("table")
                                   ELSE a.output]]

WatchConfig(window_minutes, alerts) ==
    [window_minutes |-> window_minutes, alerts |-> alerts]

WatchConfigs ==
    {WatchConfig(2, <<AlertRule("high_error_rate", "error_rate", Rat(1, 2)),
                      AlertRule("high_latency", "p95_latency", Rat(100, 1))>>),
     WatchConfig(1, <<AlertRule("high_latency", "p95_latency", Rat(100, 1)),
                      AlertRule("all_errors", "error_rate", Rat(1, 1)),
                      AlertRule("some_errors", "error_rate", Rat(1, 3))>>),
     WatchConfig(2, <<>>)}

\* datetime.now(timezone.utc), in the model's minutes.
NowTime == MaxTime - 1

(***************************************************************************)
(* A run of analyze or watch: the pull pipeline, one step per action.      *)
(***************************************************************************)
\* What --log names, or stdin when it is absent.
Sources == {"file", "stdin", "not_jsonl", "missing"}

PipelineOrders ==
    {<<"severity", "timestamp", "service", "message">>,
     <<"message", "service", "severity", "timestamp">>}

IdleCalls ==
    /\ vin = None /\ vout = None /\ ain = None /\ aout = None
    /\ fin = None /\ fout = None

Init ==
    /\ mode \in {"analyze", "watch"}
    /\ source \in Sources
    /\ order \in PipelineOrders
    /\ IF mode = "analyze"
       THEN args \in AnalyzeArgs /\ cfg = None
       ELSE args = None /\ cfg \in {Some(c) : c \in WatchConfigs}
    /\ criteria = None
    /\ pc = "start"
    /\ read = <<>>
    /\ row = None
    /\ parse_errors = 0
    /\ invalid_records = 0
    /\ agg = None
    /\ stats = None
    /\ out = <<>>
    /\ exit_code = None
    /\ err = None
    /\ IdleCalls

\* The run ends on an exception raised at `where`.
Abort(where, exc) ==
    /\ pc' = "aborted"
    /\ exit_code' = Some(1)
    /\ err' = Some([at |-> where, exc |-> exc])

\* analyze lines 49-62 / watch lines 16-28: the arguments are processed, the
\* reader, the filter generators and the aggregator are created.
Start ==
    /\ pc = "start"
    /\ IF mode = "analyze"
       THEN LET p == _process_args(args)
            IN  IF p.exit # None
                THEN /\ pc' = "aborted"
                     /\ exit_code' = p.exit
                     /\ err' = Some([at |-> "args", exc |-> "ValueError"])
                     /\ UNCHANGED <<args, criteria, agg>>
                ELSE /\ args' = p.args
                     /\ criteria' = Some([service |-> p.args.service,
                                          severity |-> p.args.severity,
                                          since |-> p.args.since,
                                          until |-> p.args.until])
                     /\ agg' = Some(NewAggregator)
                     /\ pc' = "read"
                     /\ UNCHANGED <<exit_code, err>>
       ELSE /\ criteria' = Some([service |-> {}, severity |-> {},
                                 since |-> Some(DateTime(
                                     NowTime - cfg[1].window_minutes, TRUE)),
                                 until |-> None])
            /\ agg' = Some(NewAggregator)
            /\ pc' = "read"
            /\ UNCHANGED <<args, exit_code, err>>
    /\ UNCHANGED <<mode, source, order, cfg, read, row, parse_errors,
                   invalid_records, stats, out, vin, vout, ain, aout, fin, fout>>

\* The reader's loop body on the next line of its source (_read_file lines
\* 86-108, _read_stdin lines 136-154), up to its next yield.
ReadLine(line) ==
    /\ pc = "read"
    /\ source \in {"file", "stdin"}
    /\ Len(read) < MaxLines
    /\ read' = Append(read, line)
    /\ IF source = "stdin" /\ line.k = "Exit"
       THEN /\ pc' = "eof"
            /\ UNCHANGED <<row, parse_errors, invalid_records, exit_code, err>>
       ELSE LET j == JsonLoads(line)
                r == validate_obj(j.v, order)
            IN  IF j.exc = "JSONDecodeError"
                THEN /\ parse_errors' = parse_errors + 1
                     /\ UNCHANGED <<pc, row, invalid_records, exit_code, err>>
                ELSE IF r.exc = "none"
                THEN /\ row' = Some(r.obj.d)
                     /\ pc' = "filter"
                     /\ UNCHANGED <<parse_errors, invalid_records, exit_code, err>>
                ELSE IF r.exc = "ExceptionGroup"
                THEN /\ invalid_records' = invalid_records + 1
                     /\ UNCHANGED <<pc, row, parse_errors, exit_code, err>>
                ELSE /\ Abort("reader", r.exc)
                     /\ UNCHANGED <<row, parse_errors, invalid_records>>
    /\ UNCHANGED <<mode, source, order, args, cfg, criteria, agg, stats, out,
                   vin, vout, ain, aout, fin, fout>>

\* The run ends on exit(status) in _read_file, reached through `cause`.
SourceExit(cause, status) ==
    /\ pc' = "aborted"
    /\ exit_code' = Some(status)
    /\ err' = Some([at |-> "source", exc |-> cause])
    /\ UNCHANGED <<mode, source, order, args, cfg, criteria, read, row,
                   parse_errors, invalid_records, agg, stats, out,
                   vin, vout, ain, aout, fin, fout>>

\* _read_file lines 79-81, on the first pull: the suffix is not .jsonl.
UnsupportedSuffix ==
    /\ pc = "read"
    /\ source = "not_jsonl"
    /\ SourceExit("unsupported file type", 2)

\* _read_file lines 84 and 103-105, on the first pull: open() finds no file.
FileNotFound ==
    /\ pc = "read"
    /\ source = "missing"
    /\ SourceExit("FileNotFoundError", 2)

\* ReadError with the failure taken for the end of the file.
ReadError_EndsInput ==
    /\ pc = "read"
    /\ source = "file"
    /\ pc' = "eof"
    /\ err' = Some([at |-> "source", exc |-> "OSError"])
    /\ UNCHANGED <<mode, source, order, args, cfg, criteria, read, row,
                   parse_errors, invalid_records, agg, stats, out, exit_code,
                   vin, vout, ain, aout, fin, fout>>

\* _read_file lines 84-86 and 106-108: opening the file or reading its next
\* line fails with an exception other than FileNotFoundError.
ReadError ==
    /\ pc = "read"
    /\ source = "file"
    /\ SourceExit("OSError", 1)

\* The source is exhausted: the reader's loop ends and so does every generator
\* wrapped around it, and consume's loop.
EndOfInput ==
    /\ pc = "read"
    /\ source \in {"file", "stdin"}
    /\ pc' = "eof"
    /\ UNCHANGED <<mode, source, order, args, cfg, criteria, read, row,
                   parse_errors, invalid_records, agg, stats, out, exit_code,
                   err, vin, vout, ain, aout, fin, fout>>

\* The filter generators pull the row the reader yielded and yield it on, or
\* skip it and pull the next.
Filter ==
    /\ pc = "filter"
    /\ LET res == RunStages(StagesOf(mode), row[1], criteria[1])
       IN  IF res = "yield"
           THEN pc' = "consume" /\ UNCHANGED <<row, exit_code, err>>
           ELSE IF res = "skip"
           THEN pc' = "read" /\ row' = None /\ UNCHANGED <<exit_code, err>>
           ELSE Abort("filter", res) /\ UNCHANGED row
    /\ UNCHANGED <<mode, source, order, args, cfg, criteria, read,
                   parse_errors, invalid_records, agg, stats, out,
                   vin, vout, ain, aout, fin, fout>>

\* Consume with the row kept after it was counted.
Consume_KeepsRow ==
    /\ pc = "consume"
    /\ LET c == ConsumeRow(agg[1], row[1])
       IN  /\ agg' = Some(c.agg)
           /\ IF c.exc = "none"
              THEN pc' = "read" /\ UNCHANGED <<row, exit_code, err>>
              ELSE Abort("consume", c.exc) /\ UNCHANGED row
    /\ UNCHANGED <<mode, source, order, args, cfg, criteria, read,
                   parse_errors, invalid_records, stats, out,
                   vin, vout, ain, aout, fin, fout>>

\* consume's loop body on the row the chain yielded (metrics.py lines 46-68).
Consume ==
    /\ pc = "consume"
    /\ LET c == ConsumeRow(agg[1], row[1])
       IN  /\ agg' = Some(c.agg)
           /\ IF c.exc = "none"
              THEN pc' = "read" /\ row' = None /\ UNCHANGED <<exit_code, err>>
              ELSE Abort("consume", c.exc) /\ UNCHANGED row
    /\ UNCHANGED <<mode, source, order, args, cfg, criteria, read,
                   parse_errors, invalid_records, stats, out,
                   vin, vout, ain, aout, fin, fout>>

\* stats = agg.to_dict()
ToDict ==
    /\ pc = "eof"
    /\ stats' = Some(to_dict(agg[1]))
    /\ pc' = "snapshot"
    /\ UNCHANGED <<mode, source, order, args, cfg, criteria, read, row,
                   parse_errors, invalid_records, agg, out, exit_code, err,
                   vin, vout, ain, aout, fin, fout>>

(***************************************************************************)
(* output.py: the renderers.                                               *)
(***************************************************************************)
\* datetime.isoformat()
IsoFormat(dt) == PyStr(IsoText(dt.n, dt.aware))

\* str(datetime): the ISO text with a space for the T.
StrOfDateTime(dt) ==
    PyStr("2026-01-01 00:0" \o ToString(dt.n) \o ":00"
          \o (IF dt.aware THEN "+00:00" ELSE ""))

UpperTable == "error" :> "ERROR" @@ "info" :> "INFO" @@ "a" :> "A" @@ "b" :> "B"

\* str.upper, over the keys the count maps can hold.
Upper(s) == IF s \in DOMAIN UpperTable THEN UpperTable[s] ELSE s

ErrorInfo(pe, ir) == [parse_errors |-> pe, invalid_records |-> ir]

\* output_json: the stats dictionary as the call leaves it (time range as ISO
\* text, error_info added), which is also the document it prints.
output_json(st, error_info) ==
    [total |-> st.total,
     time_range |->
        [start |-> IF st.time_range.start # None
                   THEN Some(IsoFormat(st.time_range.start[1])) ELSE None,
         end |-> IF st.time_range.end # None
                 THEN Some(IsoFormat(st.time_range.end[1])) ELSE None],
     error_rate |-> st.error_rate,
     service_counts |-> st.service_counts,
     severity_counts |-> st.severity_counts,
     latency_ms |-> st.latency_ms,
     error_info |-> error_info]

\* output_table: what the table shows.
output_table(st, error_info) ==
    [total |-> st.total,
     time_range |->
        [start |-> IF st.time_range.start # None
                   THEN Some(StrOfDateTime(st.time_range.start[1])) ELSE None,
         end |-> IF st.time_range.end # None
                 THEN Some(StrOfDateTime(st.time_range.end[1])) ELSE None],
     error_rate |-> st.error_rate,
     by_severity |-> {<<Upper(k), st.severity_counts[k]>> :
                         k \in DOMAIN st.severity_counts},
     by_service |-> {<<k, st.service_counts[k]>> : k \in DOMAIN st.service_counts},
     latency_ms |-> st.latency_ms,
     error_info |-> error_info]

OutLine(tag, body) == [tag |-> tag, body |-> body]

\* analyze lines 64-73: the snapshot is rendered and printed.
AnalyzeOutput ==
    /\ pc = "snapshot"
    /\ mode = "analyze"
    /\ LET error_info == ErrorInfo(parse_errors, invalid_records)
       IN  IF args.output = Some("json")
           THEN /\ stats' = Some(output_json(stats[1], error_info))
                /\ out' = Append(out, OutLine("json", Some(stats'[1])))
           ELSE /\ stats' = stats
                /\ out' = Append(out,
                            OutLine("table", Some(output_table(stats[1], error_info))))
    /\ pc' = "done"
    /\ exit_code' = Some(0)
    /\ UNCHANGED <<mode, source, order, args, cfg, criteria, read, row,
                   parse_errors, invalid_records, agg, err, vin, vout, ain, aout, fin, fout>>

RECURSIVE AlertLines(_)
AlertLines(messages) ==
    IF messages = <<>> THEN <<>>
    ELSE <<OutLine("ALERT", Some(Head(messages)))>> \o AlertLines(Tail(messages))

\* What watch writes and the status it ends with, given the messages.
WatchReport(messages) ==
    IF messages # <<>>
    THEN [out |-> AlertLines(messages), exit |-> Some(1)]
    ELSE [out |-> <<OutLine("OK", None)>>, exit |-> Some(0)]

\* watch lines 32-39: the alerts are evaluated and reported.
WatchAlerts ==
    /\ pc = "snapshot"
    /\ mode = "watch"
    /\ LET rep == WatchReport(_eval_alerts(stats[1], cfg[1]))
       IN  /\ out' = out \o rep.out
           /\ exit_code' = rep.exit
    /\ pc' = "done"
    /\ UNCHANGED <<mode, source, order, args, cfg, criteria, read, row,
                   parse_errors, invalid_records, agg, stats, err,
                   vin, vout, ain, aout, fin, fout>>

Next ==
    \/ Start
    \/ \E line \in PipelineLines : ReadLine(line)
    \/ EndOfInput
    \/ UnsupportedSuffix
    \/ FileNotFound
    \/ ReadError
    \/ Filter
    \/ Consume
    \/ ToDict
    \/ AnalyzeOutput
    \/ WatchAlerts

Spec == Init /\ [][Next]_vars

(***************************************************************************)
(* What the specification says of a line, stated apart from the code.      *)
(***************************************************************************)
\* Whether a raw timestamp value is ISO-8601 text.
ParsesAsIso(v) == v.ty = "str" /\ v.s \in IsoTexts

\* The line is JSON text.
Decodes(line) == line.k = "json"

\* The decoded value meets the record schema: an object with the four required
\* fields whose timestamp is ISO-8601 text.
MeetsSchema(v) ==
    /\ v.kind = "dict"
    /\ REQUIRED_FIELDS \subseteq DOMAIN v.d
    /\ ParsesAsIso(v.d["timestamp"])

\* The instant ISO-8601 text denotes.
InstantOf(text) ==
    LET p == CHOOSE p \in Times \X BOOLEAN : IsoText(p[1], p[2]) = text
    IN  DateTime(p[1], p[2])

\* The validated record of a line that meets the schema.
RecordOf(line) ==
    [k \in DOMAIN line.v.d |->
        IF k = "timestamp" THEN InstantOf(line.v.d[k].s) ELSE line.v.d[k]]

\* The i-th line read is a valid record that passes every filter stage of the run.
Admitted(i) ==
    /\ Decodes(read[i])
    /\ MeetsSchema(read[i].v)
    /\ RunStages(StagesOf(mode), RecordOf(read[i]), criteria[1]) = "yield"

\* The lines whose records the aggregator has been handed so far.
Aggregated ==
    {i \in 1..Len(read) :
        /\ Admitted(i)
        /\ (i = Len(read) => pc \notin {"filter", "consume"})}

ErrorSpellings == {"error", "ERROR", "Error"}

\* The record's severity is the string error in some letter case.
IsErrorRecord(r) ==
    "severity" \in DOMAIN r /\ r["severity"].ty = "str"
    /\ r["severity"].s \in ErrorSpellings

HasSnapshot == pc \in {"snapshot", "done"} /\ stats # None

(***************************************************************************)
(* Claims about a run.                                                     *)
(***************************************************************************)
\* C1: per-record errors never abort the run: whatever a line holds, the
\* reader absorbs it (as a parse error or an invalid record) and goes on, so no
\* run is ended by an exception raised in the reader.
C1_ReaderAbsorbsEveryLine ==
    err = None \/ err[1].at # "reader"

\* C3: a line that decodes as JSON but fails validation adds exactly 1 to
\* invalid_records, whatever the number of failures in it, leaves parse_errors
\* alone and is never yielded: at every point of a run invalid_records is the
\* number of lines read that decode and do not meet the schema, parse_errors
\* the number of lines read that are no JSON, and a row in flight comes from a
\* line that meets the schema.
C3_InvalidCountedOnce ==
    /\ invalid_records =
         Cardinality({i \in 1..Len(read) :
                         Decodes(read[i]) /\ ~MeetsSchema(read[i].v)})
    /\ parse_errors =
         Cardinality({i \in 1..Len(read) :
                         /\ ~Decodes(read[i])
                         /\ ~(source = "stdin" /\ read[i].k = "Exit")})
    /\ row # None =>
         Decodes(read[Len(read)]) /\ MeetsSchema(read[Len(read)].v)

\* C4: the snapshot's total is the number of input lines that passed
\* validation and all the filter stages of the run; lines counted as parse
\* errors or invalid records and records a filter rejected add nothing.
C4_TotalCountsAdmitted ==
    HasSnapshot =>
        stats[1].total = Cardinality({i \in 1..Len(read) : Admitted(i)})

\* C4 witness: a snapshot of three lines read, of which one was rejected by the
\* reader, one by a filter, and one counted.
C4_Witness ==
    /\ HasSnapshot
    /\ Len(read) = 3
    /\ parse_errors + invalid_records = 1
    /\ stats[1].total = 1
    /\ Cardinality({i \in 1..3 : Decodes(read[i]) /\ MeetsSchema(read[i].v)}) = 2

\* A rule is breached by a snapshot: error_rate defined and >= the threshold,
\* p95 defined and > the threshold.
Breached(rule, st) ==
    \/ /\ rule.type = "error_rate"
       /\ st.error_rate # None
       /\ RatGe(st.error_rate[1], rule.threshold)
    \/ /\ rule.type = "p95_latency"
       /\ "p95" \in DOMAIN st.latency_ms
       /\ st.latency_ms["p95"] # None
       /\ RatGt(st.latency_ms["p95"][1], rule.threshold)

\* The names of the rules a written ALERT line is for, in the order written.
AlertNames == [i \in 1..Len(out) |-> out[i].body[1].name]

\* C6: in watch mode, a non-empty input whose records all lie inside the
\* window, all have severity error (any case) and all carry a numeric latency
\* above the p95_latency rule's threshold, with an error_rate rule of threshold
\* <= 1 and that p95_latency rule configured, ends with an ALERT line for both
\* rules and exit status 1.
C6_BothAlertsFire ==
    LET rules == cfg[1].alerts
        InWindow(r) ==
            /\ r["timestamp"].aware
            /\ r["timestamp"].n >= NowTime - cfg[1].window_minutes
            /\ r["timestamp"].n <= NowTime
        Fits(i) ==
            /\ Decodes(read[i]) /\ MeetsSchema(read[i].v)
            /\ InWindow(RecordOf(read[i]))
            /\ IsErrorRecord(read[i].v.d)
            /\ "latency_ms" \in DOMAIN read[i].v.d
            /\ read[i].v.d["latency_ms"].ty = "int"
        rateRules == {k \in 1..Len(rules) :
                        /\ rules[k].type = "error_rate"
                        /\ RatGe(Rat(1, 1), rules[k].threshold)}
        p95Rules == {k \in 1..Len(rules) :
                        /\ rules[k].type = "p95_latency"
                        /\ \A i \in 1..Len(read) :
                              Fits(i) =>
                                RatGt(Rat(read[i].v.d["latency_ms"].n, 1),
                                      rules[k].threshold)}
    IN  (/\ mode = "watch" /\ pc = "done"
         /\ read # <<>>
         /\ \A i \in 1..Len(read) : Fits(i)
         /\ rateRules # {} /\ p95Rules # {})
        => /\ exit_code = Some(1)
           /\ \A k \in rateRules \cup p95Rules :
                 \E j \in 1..Len(out) :
                    out[j].tag = "ALERT" /\ out[j].body[1].name = rules[k].name

\* C7: watch writes nothing before it has evaluated the rules, and then exactly
\* one of two shapes: the single line OK and a normal return when no rule is
\* breached, or else one ALERT line per breached rule in the order of the
\* config, no OK, and exit status 1. An empty input yields OK.
C7_OkOrAlerts ==
    mode = "watch" =>
        IF pc # "done" THEN out = <<>>
        ELSE LET fired == SelectSeq(cfg[1].alerts,
                                    LAMBDA rule : Breached(rule, stats[1]))
             IN  /\ IF fired = <<>>
                    THEN out = <<OutLine("OK", None)>> /\ exit_code = Some(0)
                    ELSE /\ Len(out) = Len(fired)
                         /\ \A i \in 1..Len(out) : out[i].tag = "ALERT"
                         /\ AlertNames = [i \in 1..Len(fired) |-> fired[i].name]
                         /\ exit_code = Some(1)
                 /\ read = <<>> => out = <<OutLine("OK", None)>>

\* C7 witness: watch ended with two ALERT lines, for the second and third rule
\* of a config of three.
C7_Witness ==
    /\ mode = "watch" /\ pc = "done"
    /\ Len(cfg[1].alerts) = 3
    /\ Len(out) = 2
    /\ AlertNames = <<cfg[1].alerts[2].name, cfg[1].alerts[3].name>>
    /\ exit_code = Some(1)

\* C8: when no record reaches the aggregator the snapshot is exactly total 0,
\* no time range, no error rate, empty count maps and a latency block of count
\* 0 with min, max, avg and p95 undefined; with an empty input both error
\* counters are 0.
C8_ZeroRecordSnapshot ==
    (pc = "snapshot" /\ agg[1].total = 0) =>
        /\ stats[1] =
             [total |-> 0,
              time_range |-> [start |-> None, end |-> None],
              error_rate |-> None,
              service_counts |-> EmptyCounts,
              severity_counts |-> EmptyCounts,
              latency_ms |-> [count |-> 0, min |-> None, max |-> None,
                              avg |-> None, p95 |-> None]]
        /\ read = <<>> => parse_errors = 0 /\ invalid_records = 0

\* The numeric latencies of the records handed to the aggregator, by line.
LatencyLines ==
    {i \in Aggregated :
        /\ "latency_ms" \in DOMAIN read[i].v.d
        /\ read[i].v.d["latency_ms"].ty = "int"}

LatencyAt(i) == read[i].v.d["latency_ms"].n

RECURSIVE SumOver(_)
SumOver(S) ==
    IF S = {} THEN 0
    ELSE LET i == CHOOSE i \in S : TRUE IN LatencyAt(i) + SumOver(S \ {i})

\* C9: the latency block carries count, min, max, avg and p95; each of min,
\* max, avg and p95 is defined iff some consumed record had a numeric
\* latency_ms, and then they are the minimum, maximum, mean and 95th percentile
\* (a value between the minimum and the maximum) of those latencies.
C9_LatencyBlock ==
    pc = "snapshot" =>
        LET lat == stats[1].latency_ms
            L == LatencyLines
        IN  /\ DOMAIN lat = {"count", "min", "max", "avg", "p95"}
            /\ lat.count = Cardinality(L)
            /\ \A k \in {"min", "max", "avg", "p95"} : (lat[k] # None) <=> (L # {})
            /\ L # {} =>
                 /\ \E i \in L : lat.min = Some(LatencyAt(i))
                 /\ \A i \in L : lat.min[1] <= LatencyAt(i)
                 /\ \E i \in L : lat.max = Some(LatencyAt(i))
                 /\ \A i \in L : lat.max[1] >= LatencyAt(i)
                 /\ RatEq(lat.avg[1], Rat(SumOver(L), Cardinality(L)))
                 /\ RatGe(lat.p95[1], Rat(lat.min[1], 1))
                 /\ RatGe(Rat(lat.max[1], 1), lat.p95[1])

\* C10: the snapshot's error rate is undefined iff no consumed record has a
\* severity equal to error ignoring case; otherwise it is the number of such
\* records over total, hence within [0, 1], and 1 when every record is one.
C10_ErrorRate ==
    HasSnapshot =>
        LET errs == Cardinality({i \in Aggregated : IsErrorRecord(read[i].v.d)})
            n == Cardinality(Aggregated)
            er == stats[1].error_rate
        IN  /\ (er = None) <=> (errs = 0)
            /\ errs > 0 =>
                 /\ er[1][2] > 0
                 /\ RatEq(er[1], Rat(errs, n))
                 /\ RatGe(er[1], Rat(0, 1)) /\ RatGe(Rat(1, 1), er[1])
                 /\ (errs = n => RatEq(er[1], Rat(1, 1)))

\* C10 witness: a snapshot of three records of which two are errors, one
\* spelled in upper case.
C10_Witness ==
    /\ HasSnapshot
    /\ stats[1].total = 3
    /\ stats[1].error_rate # None
    /\ RatEq(stats[1].error_rate[1], Rat(2, 3))
    /\ \E i \in 1..Len(read) :
          Decodes(read[i]) /\ MeetsSchema(read[i].v)
          /\ read[i].v.d["severity"] = PyStr("ERROR")

(***************************************************************************)
(* validate_obj on its own: one call on any raw object.                    *)
(***************************************************************************)
IdlePipe ==
    /\ mode = "none" /\ source = "none" /\ args = None /\ cfg = None
    /\ criteria = None /\ err = None
    /\ pc = "idle" /\ read = <<>> /\ row = None
    /\ parse_errors = 0 /\ invalid_records = 0
    /\ agg = None /\ stats = None /\ out = <<>> /\ exit_code = None

InitValidate ==
    /\ IdlePipe
    /\ order \in Orders
    /\ vin \in {Some(o) : o \in ValidateInputs}
    /\ vout = None
    /\ ain = None /\ aout = None
    /\ fin = None /\ fout = None

CallValidate ==
    /\ vout = None
    /\ vin # None
    /\ vout' = Some(validate_obj(vin[1], order))
    /\ UNCHANGED <<pipeVars, vin, ain, aout, fin, fout>>

NextValidate == CallValidate

SpecValidate == InitValidate /\ [][NextValidate]_vars

\* The failures the validator owes a raw dict: one per missing required field
\* and one for a present timestamp that does not parse.
OwedFailures(obj) ==
    {KeyError(f) : f \in REQUIRED_FIELDS \ DOMAIN obj.d}
    \cup (IF "timestamp" \in DOMAIN obj.d /\ ~ParsesAsIso(obj.d["timestamp"])
          THEN {ValueError} ELSE {})

\* A raw object as JSON decoding gives it: a dict none of whose values is a
\* datetime.
IsRawDict(obj) ==
    obj.kind = "dict" /\ \A k \in DOMAIN obj.d : obj.d[k].ty # "datetime"

\* C2: validate_obj reports every violated constraint of a raw object at once:
\* the failures raised are exactly one KeyError per absent required field plus
\* one ValueError iff timestamp is present and does not parse as ISO-8601, and
\* the call succeeds iff there is none.
C2_AllFailuresAtOnce ==
    (vout # None /\ IsRawDict(vin[1])) =>
        LET r == vout[1]
            owed == OwedFailures(vin[1])
        IN  /\ (r.exc = "none") <=> (owed = {})
            /\ owed # {} =>
                 /\ r.exc = "ExceptionGroup"
                 /\ Len(r.errors) = Cardinality(owed)
                 /\ {r.errors[i] : i \in 1..Len(r.errors)} = owed

(***************************************************************************)
(* _eval_alerts on its own: one call on any snapshot and any config.       *)
(***************************************************************************)
RateVals == {None, Some(Rat(1, 4)), Some(Rat(1, 2)), Some(Rat(2, 4)), Some(Rat(1, 1))}

LatencyBlocks ==
    {[count |-> 0, min |-> None, max |-> None, avg |-> None],
     [count |-> 0, min |-> None, max |-> None, avg |-> None, p95 |-> None]}
    \cup {[count |-> 2, min |-> Some(99), max |-> Some(101),
           avg |-> Some(Rat(200, 2)), p95 |-> Some(Rat(p, 1))] : p \in {99, 100, 101}}

AlertStats ==
    {[total |-> 4,
      time_range |-> [start |-> None, end |-> None],
      error_rate |-> er,
      service_counts |-> EmptyCounts,
      severity_counts |-> EmptyCounts,
      latency_ms |-> lat] : er \in RateVals, lat \in LatencyBlocks}

AlertRules ==
    {AlertRule("high_error_rate", "error_rate", Rat(1, 2)),
     AlertRule("all_errors", "error_rate", Rat(1, 1)),
     AlertRule("high_latency", "p95_latency", Rat(100, 1)),
     AlertRule("disk", "disk_full", Rat(0, 1))}

\* The rule lists of at most MaxRules rules, no rule twice.
RuleLists ==
    UNION {{l \in [1..n -> AlertRules] : \A i, j \in 1..n : i # j => l[i] # l[j]} :
             n \in 0..MaxRules}

InitAlerts ==
    /\ IdlePipe
    /\ order = <<>>
    /\ vin = None /\ vout = None
    /\ ain \in {Some([stats |-> st, cfg |-> WatchConfig(2, l)]) :
                   st \in AlertStats, l \in RuleLists}
    /\ aout = None
    /\ fin = None /\ fout = None

CallEvalAlerts ==
    /\ ain # None
    /\ aout = None
    /\ aout' = Some(_eval_alerts(ain[1].stats, ain[1].cfg))
    /\ UNCHANGED <<pipeVars, vin, vout, ain, fin, fout>>

NextAlerts == CallEvalAlerts

SpecAlerts == InitAlerts /\ [][NextAlerts]_vars

\* C5: an error_rate rule fires iff the error rate is defined and >= its
\* threshold; a p95_latency rule fires iff p95 is defined and > its threshold
\* (p95 equal to the threshold does not fire, error rate equal to it does); a
\* rule whose metric is undefined never fires.
C5_ThresholdSemantics ==
    aout # None =>
        LET rules == ain[1].cfg.alerts
            Fired(rule) ==
                \E j \in 1..Len(aout[1]) : aout[1][j].name = rule.name
        IN  \A i \in 1..Len(rules) :
                Fired(rules[i]) <=> Breached(rules[i], ain[1].stats)

\* C5 witness: both metrics equal their rule's threshold, and of the two rules
\* only the error_rate rule has fired.
C5_Witness ==
    /\ aout # None
    /\ ain[1].cfg.alerts = <<AlertRule("high_latency", "p95_latency", Rat(100, 1)),
                             AlertRule("high_error_rate", "error_rate", Rat(1, 2))>>
    /\ ain[1].stats.error_rate = Some(Rat(2, 4))
    /\ GetP95(ain[1].stats) = Some(Rat(100, 1))
    /\ Len(aout[1]) = 1
    /\ aout[1][1].name = "high_error_rate"

(***************************************************************************)
(* The filter chain on its own: analyze lines 48-59 on a stream of         *)
(* validated rows, with the four generators wrapped in any order.          *)
(***************************************************************************)
MaxRows == 2       \* rows of a stream handed to the filter chain on its own

\* Iterating the outermost generator of the chain over the rows: the rows it
\* yields and the exception that ends the iteration, if any.
RECURSIVE filter_chain(_, _, _)
filter_chain(rows, stages, crit) ==
    IF rows = <<>> THEN [yielded |-> <<>>, exc |-> "none"]
    ELSE LET res == RunStages(stages, Head(rows), crit)
         IN  IF res \notin {"yield", "skip"}
             THEN [yielded |-> <<>>, exc |-> res]
             ELSE LET rest == filter_chain(Tail(rows), stages, crit)
                  IN  [yielded |-> (IF res = "yield" THEN <<Head(rows)>> ELSE <<>>)
                                   \o rest.yielded,
                       exc |-> rest.exc]

\* The 24 orders in which the four generators can wrap the reader.
StageOrders ==
    {o \in [1..4 -> {"service", "severity", "since", "until"}] :
        \A i, j \in 1..4 : i # j => o[i] # o[j]}

\* The rows validate_obj returns for the record lines of PipelineLines.
FilterRows ==
    {RecordOf(l) : l \in {x \in PipelineLines : Decodes(x) /\ MeetsSchema(x.v)}}

\* The streams of at most MaxRows rows.
FilterStreams == UNION {[1..n -> FilterRows] : n \in 0..MaxRows}

\* Command lines: each option absent or given, names in either letter case,
\* bounds with and without a UTC offset.
FilterArgs ==
    {RawArgs(service, severity, since, until, None) :
        service \in {{}, {"A"}, {"b"}},
        severity \in {{}, {"Error", "info"}},
        since \in {None, Some(IsoText(2, TRUE)), Some(IsoText(2, FALSE))},
        until \in {None, Some(IsoText(2, TRUE))}}

\* The arguments analyze binds into the generators.
CriteriaOf(a) ==
    [service |-> a.service, severity |-> a.severity,
     since |-> a.since, until |-> a.until]

InitFilters ==
    /\ IdlePipe
    /\ order = <<>>
    /\ vin = None /\ vout = None /\ ain = None /\ aout = None
    /\ fin \in {Some([rows |-> rows, args |-> a, stages |-> o]) :
                   rows \in FilterStreams, a \in FilterArgs, o \in StageOrders}
    /\ fout = None

\* The arguments are processed and the chain, wrapped in the order fin names,
\* is iterated to its end.
CallFilters ==
    /\ fin # None
    /\ fout = None
    /\ fout' = Some(filter_chain(fin[1].rows, fin[1].stages,
                                 CriteriaOf(_process_args(fin[1].args).args)))
    /\ UNCHANGED <<pipeVars, vin, vout, ain, aout, fin>>

NextFilters == CallFilters

SpecFilters == InitFilters /\ [][NextFilters]_vars

\* sub is rows with some of its elements left out.
RECURSIVE IsSubSeq(_, _)
IsSubSeq(sub, rows) ==
    IF sub = <<>> THEN TRUE
    ELSE IF rows = <<>> THEN FALSE
    ELSE IF Head(sub) = Head(rows) THEN IsSubSeq(Tail(sub), Tail(rows))
    ELSE IsSubSeq(sub, Tail(rows))

\* C11: filter commutativity: whatever the order in which the four filters are
\* composed, the surviving records are those that survive the order analyze
\* uses, and they keep the relative order they had in the input.
C11_FilterCommutativity ==
    fout # None =>
        LET crit == CriteriaOf(_process_args(fin[1].args).args)
        IN  /\ fout[1].yielded
                 = filter_chain(fin[1].rows, AnalyzeStages, crit).yielded
            /\ IsSubSeq(fout[1].yielded, fin[1].rows)

\* The spellings of one name, letter case apart.
Spellings == {{"error", "ERROR", "Error"}, {"info", "INFO"}, {"a", "A"}, {"b", "B"}}

SameIgnoringCase(x, y) == x = y \/ \E c \in Spellings : x \in c /\ y \in c

\* The record has a value in the field that is one of the names, letter case
\* apart.
FieldMatches(r, field, names) ==
    /\ field \in DOMAIN r
    /\ r[field].ty # "null"
    /\ \E m \in names : SameIgnoringCase(StrOf(r[field]), m)

\* C12: with only --service given (resp. only --severity), the records that
\* come through are exactly those whose service (resp. severity) is one of the
\* names typed, letter case apart on both sides; with no name given every
\* record comes through.
C12_NameFiltersIgnoreCase ==
    fout # None =>
        LET a == fin[1].args
            Wanted(field, names) ==
                SelectSeq(fin[1].rows,
                          LAMBDA r : names = {} \/ FieldMatches(r, field, names))
        IN  /\ (a.severity = {} /\ a.since = None /\ a.until = None) =>
                 fout[1] = [yielded |-> Wanted("service", a.service), exc |-> "none"]
            /\ (a.service = {} /\ a.since = None /\ a.until = None) =>
                 fout[1] = [yielded |-> Wanted("severity", a.severity),
                            exc |-> "none"]

\* C12 witness: --service A keeps the record of service a and drops that of
\* service B.
C12_Witness ==
    /\ fout # None
    /\ fin[1].args = RawArgs({"A"}, {}, None, None, None)
    /\ Len(fin[1].rows) = 2
    /\ fin[1].rows[1]["service"] = PyStr("a")
    /\ fin[1].rows[2]["service"] = PyStr("B")
    /\ fout[1].yielded = <<fin[1].rows[1]>>

(***************************************************************************)
(* Further claims about a run.                                             *)
(***************************************************************************)
\* Instant a is at or after (at or before) instant b. Between a time with a
\* UTC offset and one without, neither holds.
NotBefore(a, b) == a.aware = b.aware /\ a.n >= b.n
NotAfter(a, b) == a.aware = b.aware /\ a.n <= b.n

\* C13: the time bounds are inclusive: in a run with no service or severity
\* given, the record the filters pull is yielded to the aggregator iff (since
\* is unset or its timestamp >= since) and (until is unset or its timestamp
\* <= until); a timestamp equal to a bound passes.
C13_InclusiveBounds ==
    [][(pc = "filter" /\ criteria[1].service = {} /\ criteria[1].severity = {}) =>
         LET ts == row[1]["timestamp"]
             since == criteria[1].since
             until == criteria[1].until
         IN  (pc' = "consume") <=>
                 /\ (since = None \/ NotBefore(ts, since[1]))
                 /\ (until = None \/ NotAfter(ts, until[1]))]_vars

\* C13 witness: with --since minute 1 --until minute 3, the record of minute 1
\* has been aggregated and the record of minute 3 has been yielded.
C13_Witness ==
    /\ pc = "consume"
    /\ criteria[1].since = Some(DateTime(1, TRUE))
    /\ criteria[1].until = Some(DateTime(3, TRUE))
    /\ agg[1].total = 1
    /\ agg[1].start_time = Some(DateTime(1, TRUE))
    /\ row[1]["timestamp"] = DateTime(3, TRUE)

\* The instant lies in watch's trailing window, from now - window_minutes to now.
InWindow(ts) ==
    /\ NotBefore(ts, DateTime(NowTime - cfg[1].window_minutes, TRUE))
    /\ NotAfter(ts, DateTime(NowTime, TRUE))

\* C14: the snapshot watch evaluates its rules against counts exactly the
\* validated records timestamped in the trailing window: none older than
\* now - window_minutes and none later than now.
C14_WatchWindow ==
    (mode = "watch" /\ HasSnapshot) =>
        stats[1].total =
            Cardinality({i \in 1..Len(read) :
                            /\ Decodes(read[i])
                            /\ MeetsSchema(read[i].v)
                            /\ InWindow(RecordOf(read[i])["timestamp"])})

\* C15: every record validate_obj accepts carries a timestamp with a time
\* zone, so no comparison of timestamps raises, neither in filter_since /
\* filter_until nor in the aggregator's min / max.
C15_TimestampsComparable ==
    /\ row # None => row[1]["timestamp"].aware
    /\ err # None => err[1].at \notin {"filter", "consume"}


\* C18: an error of the source (the file's suffix is not .jsonl, the file does
\* not exist, reading it fails) ends the run with a non-zero status and with
\* no result written: no snapshot, no OK and no ALERT line, whatever had been
\* aggregated before.
C18_SourceErrorIsFatal ==
    (err # None /\ err[1].at = "source") =>
        /\ pc = "aborted"
        /\ exit_code # None /\ exit_code[1] # 0
        /\ stats = None
        /\ out = <<>>

\* C18 witness: reading the file failed after two records had been aggregated.
C18_Witness ==
    /\ err = Some([at |-> "source", exc |-> "OSError"])
    /\ agg # None /\ agg[1].total = 2
    /\ exit_code = Some(1)
    /\ out = <<>>

\* C19: the pipeline pulls one record at a time: the source reads a line only
\* when no record is in flight (the previous one was dropped or counted), it
\* reads one line at a time, and the record the aggregator counts is the one
\* of the line read last, so records are counted in the order of the source.
C19_OneRecordInFlight ==
    [][/\ read' # read =>
            /\ row = None
            /\ \E line \in PipelineLines : read' = Append(read, line)
       /\ (agg # None /\ agg' # agg) =>
            /\ read' = read
            /\ Decodes(read[Len(read)]) /\ MeetsSchema(read[Len(read)].v)
            /\ row = Some(RecordOf(read[Len(read)]))
       /\ (pc' = "read" /\ pc # "start") => row' = None]_vars

\* C19 witness: the third line's record has been yielded to the aggregator
\* after one earlier record was counted and the other dropped by a filter.
C19_Witness ==
    /\ pc = "consume"
    /\ Len(read) = 3
    /\ Admitted(1) /\ Decodes(read[2]) /\ MeetsSchema(read[2].v) /\ ~Admitted(2)
    /\ agg[1].total = 1
    /\ row = Some(RecordOf(read[3]))

\* The sum of the values of a count map.
RECURSIVE SumOfCounts(_)
SumOfCounts(counts) ==
    IF DOMAIN counts = {} THEN 0
    ELSE LET k == CHOOSE k \in DOMAIN counts : TRUE
         IN  counts[k] + SumOfCounts([x \in DOMAIN counts \ {k} |-> counts[x]])

\* The aggregated records whose field, lowercased, is k.
WithName(field, k) ==
    {i \in Aggregated :
        LET v == RecordOf(read[i])[field]
        IN  v.ty = "str" /\ SameIgnoringCase(v.s, k) /\ Lower(v.s) = k}

\* C20: between two records, the aggregator's total is the number of records
\* consumed, each severity (service) count is the number of consumed records
\* of that lowercased severity (service), the counts of each map sum to the
\* total, and the time range runs from the least to the greatest timestamp
\* consumed, in whatever order the records arrived.
C20_AggregatorCounts ==
    (agg # None /\ pc \in {"read", "eof", "snapshot", "done"}) =>
        LET a == agg[1]
            T == {RecordOf(read[i])["timestamp"] : i \in Aggregated}
        IN  /\ a.total = Cardinality(Aggregated)
            /\ \A k \in DOMAIN a.by_severity :
                   a.by_severity[k] = Cardinality(WithName("severity", k))
            /\ \A k \in DOMAIN a.by_service :
                   a.by_service[k] = Cardinality(WithName("service", k))
            /\ SumOfCounts(a.by_severity) = a.total
            /\ SumOfCounts(a.by_service) = a.total
            /\ (T = {}) <=> (a.start_time = None)
            /\ (T = {}) <=> (a.end_time = None)
            /\ T # {} =>
                 /\ a.start_time[1] \in T /\ \A t \in T : a.start_time[1].n <= t.n
                 /\ a.end_time[1] \in T /\ \A t \in T : a.end_time[1].n >= t.n

(***************************************************************************)
(* Further claims about validate_obj on its own.                           *)
(***************************************************************************)
\* obj is a record validate_obj has accepted: what a successful call on some
\* raw dict returned.
AlreadyAccepted(obj) ==
    \E raw \in ValidateInputs :
        /\ IsRawDict(raw)
        /\ validate_obj(raw, order).exc = "none"
        /\ validate_obj(raw, order).obj = obj

\* C16: validation is idempotent: validate_obj called on a record it has
\* already accepted succeeds again and leaves every field as it was.
C16_ValidationIdempotent ==
    (vout # None /\ AlreadyAccepted(vin[1])) =>
        /\ vout[1].exc = "none"
        /\ vout[1].obj = vin[1]

\* C17: validate_obj has no side effect on an input it rejects: when it reports
\* failures, every field of the object, timestamp included, still holds the
\* value it had before the call.
C17_RejectedInputUntouched ==
    (vout # None /\ vout[1].exc = "ExceptionGroup") => vout[1].obj = vin[1]

(***************************************************************************)
(* The aggregator and its snapshot on their own: consume, to_dict and the  *)
(* renderers called in any order on one StatsAggregator.                   *)
(***************************************************************************)
\* The dictionary to_dict returned, as it reads once the aggregator is a:
\* its service_counts and severity_counts are the aggregator's own by_service
\* and by_severity dictionaries, not copies of them.
Alias(st, a) ==
    [st EXCEPT !.service_counts = a.by_service,
               !.severity_counts = a.by_severity]

\* The calls made so far with the given tag.
Calls(tag) == {i \in 1..Len(out) : out[i].tag = tag}

InitSnapshot ==
    /\ mode = "none" /\ source = "none" /\ order = <<>>
    /\ args = None /\ cfg = None /\ criteria = None
    /\ pc = "fresh"
    /\ read = <<>> /\ row = None
    /\ parse_errors = 0 /\ invalid_records = 0
    /\ agg = Some(NewAggregator)
    /\ stats = None
    /\ out = <<>>
    /\ exit_code = None /\ err = None
    /\ IdleCalls

\* agg.consume([r]): one more call of consume, on one validated row.
SnapConsume(r) ==
    /\ pc \in {"fresh", "snapshot", "consumed"}
    /\ agg[1].total < MaxRows
    /\ LET c == ConsumeRow(agg[1], r)
       IN  /\ agg' = Some(c.agg)
           /\ stats' = IF stats = None THEN None ELSE Some(Alias(stats[1], c.agg))
           /\ IF c.exc = "none"
              THEN /\ pc' = IF pc = "fresh" THEN "fresh" ELSE "consumed"
                   /\ UNCHANGED err
              ELSE /\ pc' = "aborted"
                   /\ err' = Some([at |-> "consume", exc |-> c.exc])
    /\ UNCHANGED <<mode, source, order, args, cfg, criteria, read, row,
                   parse_errors, invalid_records, out, exit_code,
                   vin, vout, ain, aout, fin, fout>>

\* stats = agg.to_dict(), and a second to_dict() with no consume in between;
\* out keeps each dictionary as it was when it was returned.
SnapToDict ==
    /\ pc \in {"fresh", "snapshot"}
    /\ Cardinality(Calls("to_dict")) < 2
    /\ stats' = IF stats = None THEN Some(to_dict(agg[1])) ELSE stats
    /\ out' = Append(out, OutLine("to_dict", Some(to_dict(agg[1]))))
    /\ pc' = "snapshot"
    /\ UNCHANGED <<mode, source, order, args, cfg, criteria, read, row,
                   parse_errors, invalid_records, agg, exit_code, err,
                   vin, vout, ain, aout, fin, fout>>

\* output_json(stats, reader) on the snapshot.
SnapOutputJson ==
    /\ pc \in {"snapshot", "consumed"}
    /\ Calls("json") = {} /\ Calls("table") = {}
    /\ stats' = Some(output_json(stats[1], ErrorInfo(parse_errors, invalid_records)))
    /\ out' = Append(out, OutLine("json", Some(stats'[1])))
    /\ UNCHANGED <<mode, source, order, args, cfg, criteria, pc, read, row,
                   parse_errors, invalid_records, agg, exit_code, err,
                   vin, vout, ain, aout, fin, fout>>

\* output_table(stats, reader) on the snapshot.
SnapOutputTable ==
    /\ pc \in {"snapshot", "consumed"}
    /\ Calls("json") = {} /\ Calls("table") = {}
    /\ out' = Append(out,
                OutLine("table",
                        Some(output_table(stats[1],
                                          ErrorInfo(parse_errors, invalid_records)))))
    /\ UNCHANGED <<mode, source, order, args, cfg, criteria, pc, read, row,
                   parse_errors, invalid_records, agg, stats, exit_code, err,
                   vin, vout, ain, aout, fin, fout>>

NextSnapshot ==
    \/ \E r \in FilterRows : SnapConsume(r)
    \/ SnapToDict
    \/ SnapOutputJson
    \/ SnapOutputTable

SpecSnapshot == InitSnapshot /\ [][NextSnapshot]_vars

\* The values of a snapshot the claim names.
SnapshotValues(st) ==
    [total |-> st.total, service_counts |-> st.service_counts,
     severity_counts |-> st.severity_counts, time_range |-> st.time_range,
     latency_ms |-> st.latency_ms, error_rate |-> st.error_rate]

\* C21: a snapshot is read-only once produced: the dictionary to_dict returned
\* still holds the values it was returned with, whatever consume calls and
\* renderings came after, and a second to_dict with no consume in between
\* returns an equal dictionary.
C21_SnapshotReadOnly ==
    stats # None =>
        LET first == CHOOSE i \in Calls("to_dict") :
                        \A j \in Calls("to_dict") : i <= j
        IN  /\ SnapshotValues(stats[1]) = SnapshotValues(out[first].body[1])
            /\ pc = "snapshot" =>
                 \A j \in Calls("to_dict") : out[j].body = out[first].body

====
